---- MODULE Spec2Model ----
(***************************************************************************)
(* pgx-contrib-spiext: sub-transaction handles (src/src/subtxn.rs), the    *)
(* error-catching boundary (src/src/catch_error.rs) and the checked        *)
(* commands (src/src/checked.rs), run against a host engine that keeps a   *)
(* stack of nested transactions, a current resource owner, a current       *)
(* memory context and a pending-error state.                               *)
(*                                                                         *)
(* The caller is the most general one: it owns a set of handles, may       *)
(* obtain an SpiClient at any time (checked.rs:126-128, tests/src/lib.rs   *)
(* :88,94), and applies the public operations in any order.                *)
(***************************************************************************)
EXTENDS Integers, Sequences, FiniteSets, TLC

\* ---------------------------------------------------------------- bounds
\* Number of nested transactions the engine is asked to begin in one run.
MaxXid == 2
\* Number of catch_error calls that are active at the same time.
MaxFrames == 2

\* ------------------------------------------------------- program values
\* Option<Parent>::None (subtxn.rs:18)
NoParent == 0
\* the parent of a root handle: a client (checked.rs:128, subtxn.rs:170,175)
Client == -1
\* the parent of the auxiliary clone: Some(()) (catch_error.rs:26)
Unit == -2
\* the memory context that is current when the caller starts (subtxn.rs:33)
AmbientCtx == -1
\* payloads of native (Rust) panics and results returned by closures
Payloads == {1, 2}
\* messages of the error records a failing command raises; 0 is a null
\* message pointer (error.rs:82-83)
ErrMsgs == {0, 1}

Xids == 1..MaxXid

VARIABLES
    handles,   \* xid -> the SubTransaction value that began it (fields of
               \* subtxn.rs:9-19), while a caller or a handle owns it
    pg,        \* the host engine's state
    rel,       \* xid -> engine releases executed by handles of that xid
    held,      \* handles the running code owns directly (by xid)
    frames,    \* stack of catch_error activations (aux clone, outer handles)
    last,      \* the engine events the last operation executed
    converted  \* the PostgresError a caller built from an error record itself

vars == <<handles, pg, rel, held, frames, last, converted>>

\* ------------------------------------------------------------ the engine
NoErr == [elevel |-> "NONE", message |-> 0, detail |-> 0, hint |-> 0]

\* nesting depth of the engine's transaction stack
Depth(p) == Len(p.stack)

\* GetCurrentSubTransactionId: 0 is the top-level transaction
CurXid(p) == IF Depth(p) = 0 THEN 0 ELSE p.stack[Depth(p)].xid

\* the rows the current (sub)transaction sees
Visible(p) == IF Depth(p) = 0 THEN p.base ELSE p.stack[Depth(p)].rows

\* pg_sys::BeginInternalSubTransaction: push a nested transaction; the engine
\* makes its resource owner and its CurTransactionContext current.
BeginInternalSubTransaction(p) ==
    [p EXCEPT !.stack = Append(p.stack, [xid |-> p.nextXid, rows |-> Visible(p)]),
              !.CurrentResourceOwner = p.nextXid,
              !.CurrentMemoryContext = p.nextXid,
              !.nextXid = p.nextXid + 1]

\* the stack without its top; keep = TRUE hands the top's rows to the parent
PopStack(p, keep) ==
    LET d == Depth(p)
        top == p.stack[d]
        below == SubSeq(p.stack, 1, d - 1)
    IN  IF d = 1
        THEN [p EXCEPT !.stack = <<>>,
                       !.base = IF keep THEN top.rows ELSE p.base]
        ELSE [p EXCEPT !.stack =
                 IF keep THEN [below EXCEPT ![d - 1].rows = top.rows] ELSE below]

\* after a pop the engine makes the parent's owner and context current
EngineAfterPop(p) ==
    [p EXCEPT !.CurrentResourceOwner = CurXid(p),
              !.CurrentMemoryContext = CurXid(p)]

\* pg_sys::ReleaseCurrentSubTransaction. Outside a nested transaction the
\* engine reports "unexpected state"; the run ends there (crashed).
ReleaseCurrentSubTransaction(p) ==
    IF Depth(p) = 0 THEN [p EXCEPT !.crashed = TRUE]
    ELSE EngineAfterPop(PopStack(p, TRUE))

\* pg_sys::RollbackAndReleaseCurrentSubTransaction
RollbackAndReleaseCurrentSubTransaction(p) ==
    IF Depth(p) = 0 THEN [p EXCEPT !.crashed = TRUE]
    ELSE EngineAfterPop(PopStack(p, FALSE))

\* PgMemoryContexts::CurTransactionContext.set_as_current()
SetCurTransactionContext(p) == [p EXCEPT !.CurrentMemoryContext = CurXid(p)]

\* pg_sys::FlushErrorState
FlushErrorState(p) == [p EXCEPT !.error = FALSE, !.errdata = NoErr]

\* the engine's failure signal: the error record becomes pending
RaiseError(p, e) == [p EXCEPT !.error = TRUE, !.errdata = e]

\* a successful data-changing command: one more row, tagged with the
\* transaction that inserted it
InsertRow(p) ==
    LET d == Depth(p)
        rows == Visible(p) \cup {CurXid(p)}
    IN  IF d = 0 THEN [p EXCEPT !.base = rows]
        ELSE [p EXCEPT !.stack[d].rows = rows]

\* The engine aborts the top-level transaction when a failure leaves the
\* outermost Rust frame: every nested transaction and every effect is gone.
AbortTopLevel(p) ==
    [p EXCEPT !.stack = <<>>, !.base = {}, !.error = FALSE, !.errdata = NoErr,
              !.CurrentResourceOwner = 0, !.CurrentMemoryContext = AmbientCtx]

InitPg ==
    [stack |-> <<>>, base |-> {}, CurrentResourceOwner |-> 0,
     CurrentMemoryContext |-> AmbientCtx, error |-> FALSE, errdata |-> NoErr,
     nextXid |-> 1, crashed |-> FALSE]

\* ------------------------------------------------------------ handles
\* no value: the handle of this xid is not (or no longer) owned by anyone.
\* xid (the nested transaction the value began) and snap (the rows visible
\* when it began) are kept for the properties; the code does not read them.
FreeHandle ==
    [live |-> FALSE, COMMIT |-> TRUE, memory_context |-> 0, resource_owner |-> 0,
     should_release |-> FALSE, parent |-> NoParent, xid |-> 0, snap |-> {}]

\* one engine release executed by the handle value s: the transaction it was
\* executed for, the engine's current one when it ran, the engine afterwards
Event(w, s, kind, via, before) ==
    [k |-> kind, via |-> via, xid |-> s.xid, cur |-> CurXid(before),
     commit |-> s.COMMIT, err |-> before.error,
     ro |-> w.pg.CurrentResourceOwner, ctx |-> w.pg.CurrentMemoryContext,
     cap_ro |-> s.resource_owner, cap_ctx |-> s.memory_context]

\* bookkeeping of an executed release: count it for the handle's nested
\* transaction and add it to the events of the running operation
Executed(w, s, kind, via, before) ==
    [w EXCEPT !.rel[s.xid] = @ + 1,
              !.ev = Append(@, Event(w, s, kind, via, before))]

\* no error value
NoPgError ==
    [elevel |-> "NONE", message |-> [some |-> FALSE, s |-> 0],
     detail |-> [some |-> FALSE, s |-> 0], hint |-> [some |-> FALSE, s |-> 0]]

\* the running operation's world: what its steps read and write (err is
\* the error value the operation has built so far)
World == [handles |-> handles, pg |-> pg, rel |-> rel, ev |-> <<>>, err |-> NoPgError]

\* a value is moved out of the place that owned it / put where it is owned
Forget(w, x) == [w EXCEPT !.handles[x] = FreeHandle]
Put(w, s) == [w EXCEPT !.handles[s.xid] = s]

\* new without the switch back to the outer memory context
new_in_nested_context(w, parent) ==
    [w EXCEPT !.pg = BeginInternalSubTransaction(w.pg),
              !.handles[w.pg.nextXid] =
                  [live |-> TRUE, COMMIT |-> TRUE,
                   memory_context |-> w.pg.CurrentMemoryContext,
                   resource_owner |-> w.pg.CurrentResourceOwner,
                   should_release |-> TRUE, parent |-> parent,
                   xid |-> w.pg.nextXid, snap |-> Visible(w.pg)]]

\* SubTransaction::new (subtxn.rs:31-48)
new(w, parent) ==
    [w EXCEPT !.pg = [BeginInternalSubTransaction(w.pg) EXCEPT
                         !.CurrentMemoryContext = w.pg.CurrentMemoryContext],
              !.handles[w.pg.nextXid] =
                  [live |-> TRUE, COMMIT |-> TRUE,
                   memory_context |-> w.pg.CurrentMemoryContext,
                   resource_owner |-> w.pg.CurrentResourceOwner,
                   should_release |-> TRUE, parent |-> parent,
                   xid |-> w.pg.nextXid, snap |-> Visible(w.pg)]]

\* restore that leaves the engine's resource owner and memory context as
\* the engine set them
restore_engine_values(w, s, kind, via, p1) ==
    IF p1.crashed THEN [w EXCEPT !.pg = p1]
    ELSE Executed([w EXCEPT !.pg = p1], s, kind, via, w.pg)

\* the statements after the engine call in internal_rollback and
\* internal_commit (subtxn.rs:72-74, 80-82): the captured resource owner and
\* memory context become current again. p1 is the engine after the call;
\* when the engine refused the call nothing else runs.
restore(w, s, kind, via, p1) ==
    IF p1.crashed THEN [w EXCEPT !.pg = p1]
    ELSE Executed(
           [w EXCEPT !.pg = [p1 EXCEPT !.CurrentResourceOwner = s.resource_owner,
                                       !.CurrentMemoryContext = s.memory_context]],
           s, kind, via, w.pg)

\* SubTransaction::internal_rollback (subtxn.rs:69-75)
internal_rollback(w, s, via) ==
    restore(w, s, "rollback", via, RollbackAndReleaseCurrentSubTransaction(w.pg))

\* SubTransaction::internal_commit (subtxn.rs:77-83)
internal_commit(w, s, via) ==
    restore(w, s, "commit", via, ReleaseCurrentSubTransaction(w.pg))

\* Drop that commits whatever the default action is
Drop_always_commit(w, s) ==
    IF s.should_release THEN internal_commit(w, s, "drop") ELSE w

\* impl Drop for SubTransaction (subtxn.rs:132-142)
Drop(w, s) ==
    IF s.should_release
    THEN IF s.COMMIT
         THEN internal_commit(w, s, "drop")
         ELSE internal_rollback(w, s, "drop")
    ELSE w

\* The value s leaves scope: Drop::drop runs, then the fields are dropped,
\* the parent among them (subtxn.rs:18); a client and () have nothing to do.
RECURSIVE DropValue(_, _)
RECURSIVE DropFields(_, _)
DropValue(w, s) == DropFields(Drop(w, s), s)

DropFields(w, s) ==
    IF s.parent \in Xids
    THEN DropValue(Forget(w, s.parent), w.handles[s.parent])
    ELSE w

\* the handles xs[1], xs[2], ... leave scope one after the other
RECURSIVE DropSeq(_, _)
DropSeq(w, xs) ==
    IF xs = <<>> THEN w
    ELSE DropSeq(DropValue(Forget(w, Head(xs)), w.handles[Head(xs)]), Tail(xs))

\* the end of commit and rollback with the parent left in self
finish_parent_left(w, s) == DropValue(w, [s EXCEPT !.should_release = FALSE])

\* the end of commit and rollback (subtxn.rs:53-54, 60-61): the flag is
\* cleared, the parent is taken out and self leaves scope
finish(w, s) ==
    DropValue(w, [s EXCEPT !.should_release = FALSE, !.parent = NoParent])

\* SubTransaction::commit (subtxn.rs:51-55)
commit(w, s) == finish(internal_commit(w, s, "explicit"), s)

\* SubTransaction::rollback (subtxn.rs:58-62)
rollback(w, s) == finish(internal_rollback(w, s, "explicit"), s)

\* into whose result does not carry the release flag
into_result_disarmed(w, x) ==
    Put(DropValue(Forget(w, x), [w.handles[x] EXCEPT !.parent = NoParent,
                                                     !.should_release = FALSE]),
        [w.handles[x] EXCEPT !.COMMIT = ~@, !.should_release = FALSE])

\* into that leaves the source armed
into_source_armed(w, x) ==
    Put(DropValue(Forget(w, x), [w.handles[x] EXCEPT !.parent = NoParent]),
        [w.handles[x] EXCEPT !.COMMIT = ~@])

\* Into<SubTransaction<Parent, !COMMIT>> (subtxn.rs:100-130) on the handle
\* of x: the result is built, the source is disarmed and leaves scope at
\* the end, the result is returned
into(w, x) ==
    Put(DropValue(Forget(w, x), [w.handles[x] EXCEPT !.parent = NoParent,
                                                     !.should_release = FALSE]),
        [w.handles[x] EXCEPT !.COMMIT = ~@])

\* SubTransaction::internal_clone (catch_error.rs:16-28): the value it
\* returns; `drop` is the release flag (should_release in subtxn.rs:17)
Clone(s) == [s EXCEPT !.COMMIT = TRUE, !.parent = Unit]

\* SubTransaction::internal_clone (catch_error.rs:16-28): what it does to
\* the handle it is called on
internal_clone(w, x) == [w EXCEPT !.handles[x].should_release = FALSE]

\* the number of handles a value wraps: the nesting of its type
RECURSIVE ChainLen(_, _)
ChainLen(hs, v) == IF v \notin Xids THEN 0 ELSE 1 + ChainLen(hs, hs[v].parent)

\* ------------------------------------------------------------- errors
\* the elevel match of From<&pg_sys::ErrorData> (error.rs:64-80)
PgLogLevel(elevel) ==
    CASE elevel \in {"DEBUG5", "DEBUG4", "DEBUG3", "DEBUG2", "DEBUG1"} -> "DEBUG5"
      [] elevel \in {"LOG", "LOG_SERVER_ONLY", "INFO", "NOTICE", "WARNING",
                     "ERROR", "FATAL", "PANIC"} -> elevel
      [] OTHER -> "ERROR"

\* to_str (error.rs:81-87): None for a null pointer
to_str(s) == IF s = 0 THEN [some |-> FALSE, s |-> 0] ELSE [some |-> TRUE, s |-> s]

\* impl From<&pg_sys::ErrorData> for PostgresError (error.rs:62-122)
PostgresErrorFrom(e) ==
    [elevel |-> PgLogLevel(e.elevel), message |-> to_str(e.message),
     detail |-> to_str(e.detail), hint |-> to_str(e.hint)]

\* error records a failing command raises
RaisedErrors == [elevel : {"ERROR"}, message : ErrMsgs, detail : {0}, hint : {0}]

\* the severity levels of the engine (the pg_sys constants of error.rs:65-77)
\* and values that are none of them
KnownElevels ==
    {"DEBUG5", "DEBUG4", "DEBUG3", "DEBUG2", "DEBUG1", "LOG", "LOG_SERVER_ONLY",
     "INFO", "NOTICE", "WARNING", "ERROR", "FATAL", "PANIC"}
UnknownElevels == {"UNKNOWN_0", "UNKNOWN_99"}

\* the error records of the engine, whatever raised them
ErrorRecords ==
    [elevel : KnownElevels \cup UnknownElevels,
     message : ErrMsgs, detail : ErrMsgs, hint : ErrMsgs]

\* ------------------------------------------------- catch_error's branches
\* a step of catch_error or of a checked command that is no release
Mark(w, kind) ==
    [w EXCEPT !.ev = Append(@,
        [k |-> kind, via |-> "step", xid |-> 0, cur |-> CurXid(w.pg),
         commit |-> TRUE, err |-> w.pg.error,
         ro |-> w.pg.CurrentResourceOwner, ctx |-> w.pg.CurrentMemoryContext,
         cap_ro |-> 0, cap_ctx |-> 0])]

\* the Ok branch without the clone's flag cleared
CatchOk_clone_armed(w, x, c) ==
    DropValue(Mark([w EXCEPT !.handles[x].should_release = c.should_release], "ok"), c)

\* catch_error, Ok branch (catch_error.rs:47-60): x is the handle the
\* closure returned, c the auxiliary clone, which leaves scope on return
CatchOk(w, x, c) ==
    DropValue(Mark([w EXCEPT !.handles[x].should_release = c.should_release], "ok"),
              [c EXCEPT !.should_release = FALSE])

\* PgMemoryContexts::CurTransactionContext.set_as_current() (catch_error.rs:65)
SwitchContext(w) == Mark([w EXCEPT !.pg = SetCurTransactionContext(w.pg)], "switch")

\* CopyErrorData and PostgresError::from (catch_error.rs:68-71)
CopyError(w) == Mark([w EXCEPT !.err = PostgresErrorFrom(w.pg.errdata)], "copy")

\* FlushErrorState (catch_error.rs:74)
ClearError(w) == Mark([w EXCEPT !.pg = FlushErrorState(w.pg)], "flush")

\* the JumpContext branch with the rollback before the error is copied and
\* cleared
CatchForeign_rollback_first(w, c) ==
    ClearError(CopyError(SwitchContext(rollback(w, c))))

\* catch_error, JumpContext branch (catch_error.rs:62-80)
CatchForeign(w, c) == rollback(ClearError(CopyError(SwitchContext(w))), c)

\* catch_error, native branch (catch_error.rs:81-83): Err(Error::Rust(e)) is
\* returned and the clone leaves scope at the end of the function
CatchNative(w, c) == DropValue(Mark(w, "rust"), c)

\* what catch_error returns: Ok((result, xact)) (catch_error.rs:59),
\* Err(Error::PG(err)) (catch_error.rs:79), Err(Error::Rust(e))
\* (catch_error.rs:82)
ResultOk(result, xact) == [tag |-> "Ok", val |-> result, xact |-> xact]
ResultPG(w) == [tag |-> "PG", val |-> w.err]
ResultRust(e) == [tag |-> "Rust", val |-> e]

\* what catch_unwind hands to the Err branch: the payload of the panic, which
\* is pgx's JumpContext when the engine's failure signal was converted
JumpContext == [jump |-> TRUE, val |-> 0]
Native(v) == [jump |-> FALSE, val |-> v]

\* the Err branch taken for every payload as if it were a JumpContext
CatchErr_always_foreign(w, c, e) ==
    [w |-> CatchForeign(w, c), result |-> ResultPG(CatchForeign(w, c))]

\* catch_error, Err branch (catch_error.rs:61-83): the payload decides what
\* is done (w) and what is returned (result)
CatchErr(w, c, e) ==
    IF e.jump
    THEN [w |-> CatchForeign(w, c), result |-> ResultPG(CatchForeign(w, c))]
    ELSE [w |-> CatchNative(w, c), result |-> ResultRust(e.val)]

\* Error::into_postgres_error (error.rs:15-25): the PostgresError is
\* returned, a Rust payload is raised again (resume_unwind)
into_postgres_error(r) ==
    IF r.tag = "PG" THEN [returns |-> TRUE, val |-> r.val]
    ELSE [returns |-> FALSE, val |-> r.val]

\* ------------------------------------------------------ checked commands
\* select / update on the client a handle derefs to: e = NoErr succeeds
RunCommand(w, mut, e) ==
    IF e = NoErr
    THEN IF mut THEN [w EXCEPT !.pg = InsertRow(w.pg)] ELSE w
    ELSE [w EXCEPT !.pg = RaiseError(w.pg, e)]

\* PgTryBuilder ... catch_others(|e| Err(e)) (checked.rs:46-48, 80-82): the
\* caught error becomes a value
CatchOthers(w) ==
    [w EXCEPT !.err = PostgresErrorFrom(w.pg.errdata), !.pg = FlushErrorState(w.pg)]

\* checked_select / checked_update for SubTransaction<Parent, false>
\* (checked.rs:35-50, 69-84) on the handle of x. The closure owns self:
\* when the command fails, self leaves scope while the failure unwinds.
checked_false(w, x, mut, e) ==
    IF e = NoErr
    THEN [w |-> RunCommand(Mark(w, "try"), mut, e), ok |-> TRUE, h |-> x]
    ELSE [w |-> CatchOthers(DropSeq(RunCommand(Mark(w, "try"), mut, e), <<x>>)),
          ok |-> FALSE, h |-> 0]

\* the result handed on without the conversion back
map_unconverted(r) == r

\* .map(|(res, xact)| (res, xact.commit_on_drop())) (checked.rs:65, 99)
map_commit_on_drop(r) ==
    IF r.ok THEN [w |-> into(r.w, r.h), ok |-> TRUE, h |-> r.h] ELSE r

\* the command run on the commit-default handle as it is
checked_true_unconverted(w, x, mut, e) == checked_false(w, x, mut, e)

\* checked_select / checked_update for SubTransaction<Parent, true>
\* (checked.rs:52-67, 86-101)
checked_true(w, x, mut, e) == map_commit_on_drop(checked_false(into(w, x), x, mut, e))

\* .map(|(table, xact)| (table, *xact.commit())) (checked.rs:113, 144)
map_commit(r) ==
    IF r.ok
    THEN [w |-> commit(Forget(r.w, r.h), r.w.handles[r.h]), ok |-> TRUE, h |-> 0]
    ELSE r

\* .map(|(table, _xact)| table) (checked.rs:130, 161): _xact leaves scope
map_table(r) ==
    IF r.ok THEN [w |-> DropSeq(r.w, <<r.h>>), ok |-> TRUE, h |-> 0] ELSE r

\* sub_transaction(|xact| xact.checked_*(..)) on a client (checked.rs:112,
\* 129, 143, 160)
checked_in_scope(w, mut, e) == checked_true(new(w, Client), w.pg.nextXid, mut, e)

\* checked_* for an owned SpiClient (checked.rs:103-115, 134-146)
checked_client(w, mut, e) == map_commit(checked_in_scope(w, mut, e))

\* checked_* for &SpiClient / &mut SpiClient (checked.rs:117-132, 148-163)
checked_borrowed(w, mut, e) == map_table(checked_in_scope(w, mut, e))

\* checked_select / checked_update on a handle
checked_handle(w, x, mut, e) ==
    IF w.handles[x].COMMIT THEN checked_true(w, x, mut, e)
    ELSE checked_false(w, x, mut, e)

\* ------------------------------------------------------------- the caller
\* the orders in which a set of owned values can leave scope
Orders(S) ==
    {o \in [1..Cardinality(S) -> S] : \A i, j \in 1..Cardinality(S) : o[i] = o[j] => i = j}

\* the catch_error activation the running code is in: the auxiliary clone,
\* the handles of the code around the call and, for the properties, the
\* handle's release flag, the engine's depth and the handle's nesting at entry
NoFrame == [clone |-> FreeHandle, outer |-> {}, flag |-> FALSE, depth |-> 0, len |-> 0]
TopFrame == IF frames = <<>> THEN NoFrame ELSE frames[Len(frames)]
OuterFrames == SubSeq(frames, 1, Len(frames) - 1)

\* the state after an operation; a run the engine refused to continue ends
\* in the one crashed state
Step(w2, newHeld, newFrames) ==
    IF w2.pg.crashed
    THEN /\ handles' = [x \in Xids |-> FreeHandle]
         /\ pg' = [InitPg EXCEPT !.crashed = TRUE]
         /\ rel' = [x \in Xids |-> 0]
         /\ held' = {}
         /\ frames' = <<>>
         /\ last' = <<>>
         /\ converted' = converted
    ELSE /\ handles' = w2.handles
         /\ pg' = w2.pg
         /\ rel' = w2.rel
         /\ held' = newHeld
         /\ frames' = newFrames
         /\ last' = w2.ev
         /\ converted' = converted

Running == ~pg.crashed
CanBegin == pg.nextXid <= MaxXid

\* what the caller owns after a handle gave back its parent
Returned(x) == IF handles[x].parent \in Xids THEN {handles[x].parent} ELSE {}

Init ==
    /\ handles = [x \in Xids |-> FreeHandle]
    /\ pg = InitPg
    /\ rel = [x \in Xids |-> 0]
    /\ held = {}
    /\ frames = <<>>
    /\ last = <<>>
    /\ converted = NoPgError

\* sub_transaction on SpiClient / Box<SpiClient> (subtxn.rs:169-189); the
\* closure hands the new handle on to the code that called
SubTransactionClient ==
    /\ Running /\ CanBegin
    /\ Step(new(World, Client), held \cup {pg.nextXid}, frames)

\* sub_transaction on the handle of x (subtxn.rs:191-200)
SubTransactionOn(x) ==
    /\ Running /\ CanBegin
    /\ x \in held
    /\ handles[x].COMMIT
    /\ Step(new(World, x), (held \ {x}) \cup {pg.nextXid}, frames)

SubTransactionHandle == \E x \in Xids : SubTransactionOn(x)

\* SubTransaction::commit on the handle of x
CommitOf(x) ==
    /\ Running
    /\ x \in held
    /\ handles[x].parent # NoParent
    /\ Step(commit(Forget(World, x), handles[x]), (held \ {x}) \cup Returned(x),
            frames)

Commit == \E x \in Xids : CommitOf(x)

\* SubTransaction::rollback on the handle of x
RollbackOf(x) ==
    /\ Running
    /\ x \in held
    /\ handles[x].parent # NoParent
    /\ Step(rollback(Forget(World, x), handles[x]), (held \ {x}) \cup Returned(x),
            frames)

Rollback == \E x \in Xids : RollbackOf(x)

\* rollback_on_drop / commit_on_drop on the handle of x
ConvertOf(x) ==
    /\ Running
    /\ x \in held
    /\ Step(into(World, x), held, frames)

\* SubTransaction<Parent, true>::rollback_on_drop (subtxn.rs:86-91)
RollbackOnDrop == \E x \in Xids : handles[x].COMMIT /\ ConvertOf(x)

\* SubTransaction<Parent, false>::commit_on_drop (subtxn.rs:93-98)
CommitOnDrop == \E x \in Xids : ~handles[x].COMMIT /\ ConvertOf(x)

\* the handle of x leaves scope without commit or rollback
ScopeExitOf(x) ==
    /\ Running
    /\ x \in held
    /\ Step(DropSeq(World, <<x>>), held \ {x}, frames)

ScopeExit == \E x \in Xids : ScopeExitOf(x)

\* a data-changing command that succeeds, run inside a nested transaction
\* through Deref / DerefMut of a handle (or on the client it gave back)
Update ==
    /\ Running
    /\ Depth(pg) > 0
    /\ CurXid(pg) \notin Visible(pg)
    /\ Step(RunCommand(World, TRUE, NoErr), held, frames)

\* the engine aborts the top-level transaction
Abort(w) == [w EXCEPT !.pg = AbortTopLevel(w.pg)]

\* a command fails outside every catch_error: the failure unwinds through
\* the caller, whose handles leave scope, and the engine aborts the
\* top-level transaction
RaiseEngineTop ==
    /\ Running /\ frames = <<>>
    /\ \E e \in RaisedErrors, ord \in Orders(held) :
        Step(Abort(DropSeq(RunCommand(World, TRUE, e), ord)), {}, frames)

\* a native panic outside every catch_error
RaiseNativeTop ==
    /\ Running /\ frames = <<>>
    /\ \E ord \in Orders(held) :
        Step(Abort(DropSeq(World, ord)), {}, frames)

\* catch_error is called with the handle of x (catch_error.rs:37-48): the
\* clone is taken and the closure starts with the handle
CatchErrorEnterOf(x) ==
    /\ Running
    /\ Len(frames) < MaxFrames
    /\ x \in held
    /\ handles[x].COMMIT
    /\ Step(internal_clone(World, x), {x},
            Append(frames, [clone |-> Clone(handles[x]), outer |-> held \ {x},
                            flag |-> handles[x].should_release,
                            depth |-> Depth(pg),
                            len |-> ChainLen(handles, x)]))

CatchErrorEnter == \E x \in Xids : CatchErrorEnterOf(x)

\* catch_error is called with the handle of x and a closure that owns the
\* handles S of its caller as well (a move closure, catch_error.rs:39-43):
\* they are the closure's to use, to return and to drop
CatchErrorEnterMoveOf(x, S) ==
    /\ Running
    /\ Len(frames) < MaxFrames
    /\ x \in held
    /\ handles[x].COMMIT
    /\ S # {} /\ S \subseteq held \ {x}
    /\ Step(internal_clone(World, x), {x} \cup S,
            Append(frames, [clone |-> Clone(handles[x]),
                            outer |-> held \ ({x} \cup S),
                            flag |-> handles[x].should_release,
                            depth |-> Depth(pg),
                            len |-> ChainLen(handles, x)]))

CatchErrorEnterMove ==
    \E x \in Xids, S \in SUBSET Xids : CatchErrorEnterMoveOf(x, S)

\* the closure returns (result, xact), xact the handle of x: a handle of the
\* type the closure was given
CatchErrorReturnOf(x) ==
    /\ Running /\ frames # <<>>
    /\ held = {x}
    /\ handles[x].COMMIT
    /\ ChainLen(handles, x) = TopFrame.len
    /\ Step(CatchOk(World, x, TopFrame.clone), TopFrame.outer \cup {x},
            OuterFrames)

CatchErrorReturn == \E x \in Xids : CatchErrorReturnOf(x)

\* a command fails inside the closure: the engine's failure signal unwinds
\* through the closure, whose handles leave scope, into catch_error
RaiseEngineCaughtOf(e, ord) ==
    /\ Running /\ frames # <<>>
    /\ Step(CatchErr(DropSeq(RunCommand(World, TRUE, e), ord), TopFrame.clone,
                     JumpContext).w,
            TopFrame.outer, OuterFrames)

RaiseEngineCaught == \E e \in RaisedErrors, ord \in Orders(held) : RaiseEngineCaughtOf(e, ord)

\* a native panic with payload v inside the closure
RaiseNativeCaughtOf(v, ord) ==
    /\ Running /\ frames # <<>>
    /\ Step(CatchErr(DropSeq(World, ord), TopFrame.clone, Native(v)).w,
            TopFrame.outer, OuterFrames)

RaiseNativeCaught == \E v \in Payloads, ord \in Orders(held) : RaiseNativeCaughtOf(v, ord)

\* the handle a checked command gave back
Given(r) == IF r.h \in Xids THEN {r.h} ELSE {}

\* checked_select / checked_update on the handle of x
CheckedHandleOf(x, mut, e) ==
    /\ Running
    /\ x \in held
    /\ Step(checked_handle(World, x, mut, e).w,
            (held \ {x}) \cup Given(checked_handle(World, x, mut, e)), frames)

CheckedHandle ==
    \E x \in Xids, mut \in BOOLEAN, e \in RaisedErrors \cup {NoErr} :
        CheckedHandleOf(x, mut, e)

\* checked_select / checked_update on an owned client
CheckedClientOf(mut, e) ==
    /\ Running /\ CanBegin
    /\ Step(checked_client(World, mut, e).w, held, frames)

CheckedClient ==
    \E mut \in BOOLEAN, e \in RaisedErrors \cup {NoErr} : CheckedClientOf(mut, e)

\* checked_select on &SpiClient, checked_update on &mut SpiClient
CheckedBorrowedOf(mut, e) ==
    /\ Running /\ CanBegin
    /\ Step(checked_borrowed(World, mut, e).w, held, frames)

CheckedBorrowed ==
    \E mut \in BOOLEAN, e \in RaisedErrors \cup {NoErr} : CheckedBorrowedOf(mut, e)

Next ==
    \/ SubTransactionClient
    \/ SubTransactionHandle
    \/ Commit
    \/ Rollback
    \/ RollbackOnDrop
    \/ CommitOnDrop
    \/ ScopeExit
    \/ Update
    \/ RaiseEngineTop
    \/ RaiseNativeTop
    \/ CatchErrorEnter
    \/ CatchErrorReturn
    \/ RaiseEngineCaught
    \/ RaiseNativeCaught
    \/ CheckedHandle
    \/ CheckedClient
    \/ CheckedBorrowed

Spec == Init /\ [][Next]_vars

\* the conversion on its own: the engine holds an error record e and the
\* caller converts it with PostgresError::from (error.rs:62-122)
InitConvert ==
    /\ handles = [x \in Xids |-> FreeHandle]
    /\ pg \in {RaiseError(InitPg, e) : e \in ErrorRecords}
    /\ rel = [x \in Xids |-> 0]
    /\ held = {}
    /\ frames = <<>>
    /\ last = <<>>
    /\ converted = NoPgError

Convert ==
    /\ pg.error
    /\ converted' = PostgresErrorFrom(pg.errdata)
    /\ UNCHANGED <<handles, pg, rel, held, frames, last>>

SpecConvert == InitConvert /\ [][Convert]_vars

\* the program with closures that own further handles of their caller
NextMove == Next \/ CatchErrorEnterMove

SpecMove == Init /\ [][NextMove]_vars

\* ------------------------------------------------------------ properties
\* the releases among the events of the last operation
Releases(evs) == {i \in DOMAIN evs : evs[i].k \in {"commit", "rollback"}}

\* the releases the handle that began x executed in the last operation
ReleasesOf(evs, x) == {i \in Releases(evs) : evs[i].xid = x}

\* the nested transaction x is open in the engine
Open(p, x) == \E i \in 1..Depth(p) : p.stack[i].xid = x

\* a handle value of the nested transaction x exists: the handle itself or
\* the clone a catch_error call keeps of it
Referred(x) == handles[x].live \/ \E i \in DOMAIN frames : frames[i].clone.xid = x

\* C1: for every handle, at most one engine release is ever executed for
\* the nested transaction it began, whatever sequence of commit, rollback,
\* conversion, catch_error and scope exit is applied.
C1_AtMostOneRelease == \A x \in Xids : rel[x] <= 1

\* C2: every nested transaction that was begun is released exactly once,
\* however control leaves its scope: once no handle refers to it any more,
\* it is not open in the engine and one release was executed for it.
C2_ReleasedExactlyOnce ==
    Running =>
        \A x \in Xids :
            (x < pg.nextXid /\ ~Referred(x)) => (rel[x] = 1 /\ ~Open(pg, x))

\* C3: when a handle leaves scope without commit or rollback, its finalizer
\* executes exactly the default action if should_release is set (a commit
\* for COMMIT = true, a rollback for COMMIT = false) and no engine
\* operation if should_release is not set.
C3_ScopeExitDefaultAction ==
    [][\A x \in Xids :
          (x \in held /\ ScopeExitOf(x) /\ Running') =>
              IF handles[x].should_release
              THEN /\ last' # <<>>
                   /\ ReleasesOf(last', x) = {1}
                   /\ last'[1].via = "drop"
                   /\ last'[1].k = IF handles[x].COMMIT THEN "commit" ELSE "rollback"
              ELSE ReleasesOf(last', x) = {}]_vars

\* a rollback-default handle that was armed has just left scope
C3_Witness ==
    /\ Running
    /\ last # <<>>
    /\ last[1].via = "drop" /\ last[1].k = "rollback" /\ ~last[1].commit

\* the engine and the handles after the step, as an operation's world
WorldAfter == [handles |-> handles', pg |-> pg', rel |-> rel', ev |-> <<>>, err |-> NoPgError]

\* C4: a conversion (rollback_on_drop, commit_on_drop), the source value
\* leaving scope included, executes no engine operation; the converted
\* handle keeps the release flag, and its scope exit releases the nested
\* transaction with the converted default action.
C4_ConversionSilent ==
    [][\A x \in Xids :
          (x \in held /\ ConvertOf(x) /\ Running') =>
              /\ last' = <<>>
              /\ pg' = pg
              /\ rel' = rel
              /\ handles' = [handles EXCEPT ![x].COMMIT = ~handles[x].COMMIT]
              /\ (handles[x].should_release /\ Depth(pg) > 0) =>
                    /\ Len(Drop(WorldAfter, handles'[x]).ev) = 1
                    /\ Drop(WorldAfter, handles'[x]).ev[1].xid = x
                    /\ Drop(WorldAfter, handles'[x]).ev[1].k =
                          IF handles[x].COMMIT THEN "rollback" ELSE "commit"]_vars

\* an armed handle that was converted to rollback-default is held, nothing
\* having been executed by the conversion
C4_Witness ==
    /\ Running
    /\ last = <<>>
    /\ \E x \in held : handles[x].should_release /\ ~handles[x].COMMIT /\ Open(pg, x)

\* C5: handles nest in strict stack discipline: a handle that is finalized
\* is the innermost one (the engine's current nested transaction is the one
\* it began), and every live handle has a nesting level of its own (its
\* nested transaction is open in the engine).
C5_StackDiscipline ==
    Running =>
        /\ \A i \in Releases(last) : last[i].cur = last[i].xid
        /\ \A x \in Xids : handles[x].live => Open(pg, x)

\* C6: right after a handle is finalized (commit, rollback or the
\* scope-exit finalizer) the engine's current resource owner and memory
\* context are the ones captured when the handle was created.
C6_RestoredToCaptured ==
    \A i \in Releases(last) :
        /\ last[i].ro = last[i].cap_ro
        /\ last[i].ctx = last[i].cap_ctx

\* a handle created in the ambient context inside another scope has just
\* been finalized: the engine would have left the parent's context current
C6_Witness ==
    /\ Running
    /\ \E i \in Releases(last) :
        /\ last[i].cap_ctx = AmbientCtx
        /\ last[i].cap_ro # 0
        /\ last[i].cur = last[i].xid

\* C7: rolling back the outermost of N nested scopes undoes every effect
\* performed in all of them, those of inner scopes that were committed
\* included: the parent sees the data it saw before the outermost scope
\* began, and no row of that scope or of a later one.
C7_OutermostRollbackUndoesAll ==
    [][\A x \in Xids :
          (x \in held /\ RollbackOf(x) /\ Running') =>
              /\ Visible(pg') = handles[x].snap
              /\ \A y \in Xids : y >= x => y \notin Visible(pg')]_vars

\* C8: an explicit rollback undoes exactly the effects of the handle's own
\* scope and returns the parent: the scope is closed, its rows are gone,
\* every row that was visible before the scope began is still visible, and
\* the parent handle is handed back unchanged.
C8_RollbackUndoesOwnScope ==
    [][\A x \in Xids :
          (x \in held /\ RollbackOf(x) /\ Running') =>
              /\ ~Open(pg', x)
              /\ x \notin Visible(pg')
              /\ handles[x].snap \subseteq Visible(pg')
              /\ Visible(pg') \subseteq handles[x].snap \cup (Visible(pg) \ {x})
              /\ held' = (held \ {x}) \cup Returned(x)
              /\ \A y \in Returned(x) : handles'[y] = handles[y]]_vars

\* C9: a catch_error call whose closure triggers the engine's failure
\* signal returns Err(Error::PG) with the engine's error record; on return
\* the pending error is cleared, the handle's nested transaction was rolled
\* back exactly once (the depth is one less than at entry) and the resource
\* owner and memory context are those the handle captured. No return path
\* of catch_error leaves the engine's error flag set.
C9_EngineFailureRecovered ==
    [][/\ \A e \in RaisedErrors, ord \in Orders(held) :
            (Len(frames') < Len(frames) /\ RaiseEngineCaughtOf(e, ord) /\ Running') =>
                /\ ResultPG(CatchForeign(DropSeq(RunCommand(World, TRUE, e), ord),
                                         TopFrame.clone))
                       = [tag |-> "PG", val |-> PostgresErrorFrom(e)]
                /\ ~pg'.error
                /\ Depth(pg') = TopFrame.depth - 1
                /\ ~Open(pg', TopFrame.clone.xid)
                /\ rel'[TopFrame.clone.xid] = 1
                /\ pg'.CurrentResourceOwner = TopFrame.clone.resource_owner
                /\ pg'.CurrentMemoryContext = TopFrame.clone.memory_context
       /\ (Len(frames') < Len(frames) /\ Running') => ~pg'.error]_vars

\* C10: a catch_error call whose closure succeeds returns Ok with the
\* closure's result and handle; the handle's release flag is the one it had
\* at entry and nothing else of it changed, the clone is disarmed, and the
\* call executed no engine release: the engine is as the closure left it.
C10_SuccessKeepsHandle ==
    [][\A x \in Xids :
          (Len(frames') < Len(frames) /\ CatchErrorReturnOf(x) /\ Running') =>
              /\ \A v \in Payloads : ResultOk(v, x) = [tag |-> "Ok", val |-> v, xact |-> x]
              /\ handles' = [handles EXCEPT ![x].should_release = TopFrame.flag]
              /\ x \in held'
              /\ Releases(last') = {}
              /\ pg' = pg
              /\ rel' = rel]_vars

\* catch_error has just returned Ok from inside a nested transaction and the
\* handle it gave back is armed again
C10_Witness ==
    /\ Running
    /\ Len(last) = 1 /\ last[1].k = "ok"
    /\ \E x \in held : handles[x].should_release /\ Open(pg, x)

\* the steps of the JumpContext branch among the events of an operation
RecoverySteps(evs) == {i \in DOMAIN evs : evs[i].k \in {"switch", "copy", "flush"}}

\* C11: a catch_error call whose closure raises a native panic returns
\* Err(Error::Rust) with the panic's payload unchanged and never
\* Err(Error::PG); the call neither switches the memory context nor copies
\* or clears the engine's error state, and into_postgres_error raises the
\* same payload again instead of returning a value.
C11_NativeFailureSurfaces ==
    [][\A v \in Payloads, ord \in Orders(held) :
          (Len(frames') < Len(frames) /\ RaiseNativeCaughtOf(v, ord) /\ Running') =>
              /\ CatchErr(DropSeq(World, ord), TopFrame.clone, Native(v)).result
                     = [tag |-> "Rust", val |-> v]
              /\ into_postgres_error(
                    CatchErr(DropSeq(World, ord), TopFrame.clone, Native(v)).result)
                     = [returns |-> FALSE, val |-> v]
              /\ RecoverySteps(last') = {}
              /\ pg'.error = pg.error
              /\ pg'.errdata = pg.errdata]_vars

\* catch_error has just returned Err(Error::Rust) for a native panic that
\* unwound through a handle of the closure
C11_Witness ==
    /\ Running
    /\ \E i \in DOMAIN last : last[i].k = "rust"
    /\ \E i \in Releases(last) : last[i].via = "drop"

\* catch_error returns Err from the innermost activation
CatchErrorFails ==
    \/ \E e \in RaisedErrors, ord \in Orders(held) : RaiseEngineCaughtOf(e, ord)
    \/ \E v \in Payloads, ord \in Orders(held) : RaiseNativeCaughtOf(v, ord)

\* C12: catch_error rolls the sub-transaction back if any panic occurs in
\* the closure, the engine's failure signal or a native panic: when it
\* returns Err, the release it executed for the sub-transaction is a
\* rollback, the sub-transaction is closed and its effects are gone.
C12_AnyPanicRollsBack ==
    [][(Len(frames') < Len(frames) /\ CatchErrorFails /\ Running') =>
          /\ \A i \in ReleasesOf(last', TopFrame.clone.xid) : last'[i].k = "rollback"
          /\ ~Open(pg', TopFrame.clone.xid)
          /\ TopFrame.clone.xid \notin Visible(pg')]_vars

\* C13: a failed checked command on a handle rolls back exactly the work
\* done since the command started: the result is Err with the engine's
\* error, the handle's scope is still open at the same depth, and the
\* effects made in the scope before the failing call are still visible.
C13_FailedCheckedKeepsScope ==
    [][\A x \in Xids, mut \in BOOLEAN, e \in RaisedErrors :
          (x \in held /\ last' # <<>> /\ CheckedHandleOf(x, mut, e) /\ Running') =>
              /\ ~checked_handle(World, x, mut, e).ok
              /\ checked_handle(World, x, mut, e).w.err = PostgresErrorFrom(e)
              /\ Depth(pg') = Depth(pg)
              /\ Open(pg', x)
              /\ Visible(pg') = Visible(pg)]_vars

\* a checked command on a bare client, owned or borrowed
CheckedOnClient(mut, e) == CheckedClientOf(mut, e) \/ CheckedBorrowedOf(mut, e)

\* C14: a checked command on a bare client opens one nested scope, runs the
\* command in it and finalizes the scope before returning: committed on
\* success (the effect stays), rolled back on failure; the engine's current
\* nested transaction and depth after the call are those before it.
C14_BareClientEphemeralScope ==
    [][\A mut \in BOOLEAN, e \in RaisedErrors \cup {NoErr} :
          (last' # <<>> /\ pg'.nextXid # pg.nextXid /\ CheckedOnClient(mut, e) /\ Running') =>
              /\ pg'.nextXid = pg.nextXid + 1
              /\ Depth(pg') = Depth(pg)
              /\ CurXid(pg') = CurXid(pg)
              /\ ~Open(pg', pg.nextXid)
              /\ handles' = handles /\ held' = held
              /\ Cardinality(Releases(last')) = 1
              /\ \A i \in Releases(last') :
                    /\ last'[i].xid = pg.nextXid
                    /\ last'[i].cur = pg.nextXid
                    /\ last'[i].k = IF e = NoErr THEN "commit" ELSE "rollback"
              /\ Visible(pg') =
                    Visible(pg) \cup (IF e = NoErr /\ mut THEN {pg.nextXid} ELSE {})]_vars

\* a checked update on a bare client has just succeeded: the scope it opened
\* was committed and its row is visible
C14_Witness ==
    /\ Running
    /\ last # <<>> /\ last[1].k = "try"
    /\ \E i \in Releases(last) : last[i].xid = pg.nextXid - 1 /\ last[i].k = "commit"
    /\ (pg.nextXid - 1) \in Visible(pg)

\* the handle values of the nested transaction x whose release flag is set
ArmedValues(x) ==
    (IF handles[x].live /\ handles[x].should_release THEN {0} ELSE {})
    \cup {i \in DOMAIN frames :
            frames[i].clone.xid = x /\ frames[i].clone.should_release}

\* C15: in every state at most one handle value of a nested transaction has
\* its release flag set: never both a conversion's source and its result,
\* never both the handle passed to catch_error and the auxiliary clone.
C15_OneArmedValue == \A x \in Xids : Cardinality(ArmedValues(x)) <= 1

\* the events k of an operation
StepsOf(evs, k) == {i \in DOMAIN evs : evs[i].k = k}

\* the explicit rollbacks among the events of an operation
ExplicitRollbacks(evs) ==
    {i \in Releases(evs) : evs[i].k = "rollback" /\ evs[i].via = "explicit"}

\* the events evs end with the four recovery steps in the order of the
\* JumpContext branch, the rollback being that of the nested transaction x
EndsWithRecovery(evs, x) ==
    /\ Len(evs) >= 4
    /\ evs[Len(evs) - 3].k = "switch"
    /\ evs[Len(evs) - 2].k = "copy" /\ evs[Len(evs) - 2].err
    /\ evs[Len(evs) - 1].k = "flush"
    /\ Len(evs) \in ExplicitRollbacks(evs)
    /\ evs[Len(evs)].xid = x /\ ~evs[Len(evs)].err

\* C16: when a command fails inside the closure of catch_error, the call
\* switches to the transaction's memory context, copies the error record
\* while the error is pending, clears the error state, rolls the clone back
\* with no error pending and returns Err(Error::PG) of the copied record;
\* each step happens once, in this order, and nothing follows the rollback.
C16_RecoveryOrder ==
    [][\A e \in RaisedErrors, ord \in Orders(held) :
          RaiseEngineCaughtOf(e, ord) /\ Running' =>
              /\ EndsWithRecovery(last', TopFrame.clone.xid)
              /\ Cardinality(StepsOf(last', "switch")) = 1
              /\ Cardinality(StepsOf(last', "copy")) = 1
              /\ Cardinality(StepsOf(last', "flush")) = 1
              /\ Cardinality(ExplicitRollbacks(last')) = 1
              /\ CatchErr(DropSeq(RunCommand(World, TRUE, e), ord),
                          TopFrame.clone, JumpContext).result
                     = [tag |-> "PG", val |-> PostgresErrorFrom(e)]]_vars

\* a catch_error call has just recovered from a failed command
C16_Witness ==
    /\ Running
    /\ \E x \in Xids : EndsWithRecovery(last, x)

\* C17: whenever Drop executes its default action against the engine, the
\* engine has no pending error, also for the handles that leave scope while
\* a failed command unwinds through catch_error or a checked command.
C17_FinalizerNoPendingError ==
    \A i \in Releases(last) : last[i].via = "drop" => ~last[i].err

\* the handle SubTransaction::new has just made for the parent given to it:
\* n is the nested transaction it began
Created(n, parent) ==
    /\ handles'[n].live
    /\ handles'[n].memory_context = pg.CurrentMemoryContext
    /\ handles'[n].resource_owner = pg.CurrentResourceOwner
    /\ handles'[n].should_release
    /\ handles'[n].parent = parent
    /\ pg'.stack = Append(pg.stack, [xid |-> n, rows |-> Visible(pg)])
    /\ pg'.nextXid = n + 1
    /\ pg'.CurrentMemoryContext = pg.CurrentMemoryContext
    /\ pg'.CurrentMemoryContext # n
    /\ last' = <<>>

\* C18: sub_transaction builds its handle with the memory context and the
\* resource owner that were current before the engine began the nested
\* transaction, begins exactly one nested transaction, leaves the memory
\* context that was current before the begin current again, and the handle
\* is armed and holds the parent (a client or a handle) it was given.
C18_CreateCapturesAndRestores ==
    [][/\ SubTransactionClient => Created(pg.nextXid, Client)
       /\ \A x \in Xids : SubTransactionOn(x) =>
              /\ Created(pg.nextXid, x)
              /\ handles'[x] = handles[x]]_vars

\* a handle made on another handle: the engine is two levels deep in the
\* new nested transaction and the memory context is the one captured
C18_Witness ==
    /\ Running /\ last = <<>>
    /\ \E x \in held :
          /\ handles[x].parent \in Xids /\ handles[x].should_release
          /\ rel[x] = 0 /\ CurXid(pg) = x /\ Depth(pg) = 2
          /\ pg.CurrentMemoryContext = handles[x].memory_context
          /\ pg.CurrentResourceOwner = x
          /\ handles[x].resource_owner = handles[x].parent

\* the last event of an operation is a commit of x executed by Drop
EndsWithDropCommit(evs, x) ==
    /\ evs # <<>>
    /\ evs[Len(evs)].k = "commit" /\ evs[Len(evs)].via = "drop"
    /\ evs[Len(evs)].xid = x

\* C19: a checked command that succeeds on a handle runs in the handle's
\* own nested transaction: no nested transaction is begun and none is
\* released, the engine changes only by the command's effect, and the handle
\* returned is the one passed in, with the same default action, release flag,
\* parent and captured values; the Drop of a returned armed commit-default
\* handle executes a commit (the engine accepting the call).
C19_CheckedOnHandleSameScope ==
    [][\A x \in Xids, mut \in BOOLEAN :
          CheckedHandleOf(x, mut, NoErr) =>
              /\ checked_handle(World, x, mut, NoErr).ok
              /\ checked_handle(World, x, mut, NoErr).h = x
              /\ held' = held
              /\ handles' = handles
              /\ pg' = (IF mut THEN InsertRow(pg) ELSE pg)
              /\ Releases(last') = {}
              /\ rel' = rel
              /\ (/\ handles[x].COMMIT /\ handles[x].should_release
                  /\ ~Drop(checked_handle(World, x, mut, NoErr).w,
                           handles'[x]).pg.crashed) =>
                    EndsWithDropCommit(
                        Drop(checked_handle(World, x, mut, NoErr).w, handles'[x]).ev,
                        x)]_vars

\* a checked command has just succeeded on an armed commit-default handle
\* whose nested transaction is the engine's current one
C19_Witness ==
    /\ Running
    /\ Len(last) = 1 /\ last[1].k = "try"
    /\ \E x \in held :
          /\ handles[x].COMMIT /\ handles[x].should_release
          /\ CurXid(pg) = x /\ x \in Visible(pg)

\* the handles the running code and the code around its catch_error calls own
Owned == held \cup UNION {frames[i].outer : i \in DOMAIN frames}

\* every handle that can be used holds its parent, and a parent that is a
\* handle is held by one handle only and by nobody else
ParentPresent ==
    /\ \A x \in Owned : handles[x].live
    /\ \A x \in Xids : handles[x].live =>
          /\ handles[x].parent # NoParent
          /\ handles[x].parent \in Xids =>
                /\ handles[handles[x].parent].live
                /\ handles[x].parent \notin Owned
                /\ \A y \in Xids \ {x} :
                      handles[y].live => handles[y].parent # handles[x].parent

\* commit or rollback of the handle of x gives back the parent: the handle
\* is gone, a parent that is a handle is the caller's again, as it was
ParentReturned(x) ==
    /\ ~handles'[x].live
    /\ handles[x].parent \in Xids =>
          /\ handles'[handles[x].parent] = handles[handles[x].parent]
          /\ handles[x].parent \in held'
          /\ ReleasesOf(last', handles[x].parent) = {}

\* a conversion of the handle of x moves the parent to the result
ParentMoved(x) ==
    /\ handles'[x].live
    /\ handles'[x].parent = handles[x].parent
    /\ handles[x].parent \in Xids =>
          /\ handles'[handles[x].parent] = handles[handles[x].parent]
          /\ ReleasesOf(last', handles[x].parent) = {}

\* C20: the parent given to sub_transaction is in the handle whenever the
\* handle can be used; commit and rollback consume the handle and return
\* exactly that parent, untouched; a conversion moves the parent to the
\* converted handle, so that the source that leaves scope has none to drop.
C20_ParentHeldAndReturned ==
    [][/\ Running => ParentPresent
       /\ Running' => ParentPresent'
       /\ \A x \in Xids :
             /\ ((CommitOf(x) \/ RollbackOf(x)) /\ Running') => ParentReturned(x)
             /\ (ConvertOf(x) /\ Running') => ParentMoved(x)]_vars

\* a handle made on another handle has just been committed or rolled back
\* and the caller holds the parent again, still armed
C20_Witness ==
    /\ Running
    /\ Len(last) = 1 /\ last[1].via = "explicit"
    /\ \E p \in held :
          /\ p # last[1].xid /\ last[1].cap_ro = p
          /\ handles[p].should_release /\ handles[p].parent = Client
          /\ ~handles[last[1].xid].live

\* the engine state a conversion could touch: the nested transactions, the
\* current resource owner and memory context, the error state
EngineUntouched(p, q) ==
    /\ p.stack = q.stack /\ p.nextXid = q.nextXid
    /\ p.CurrentResourceOwner = q.CurrentResourceOwner
    /\ p.CurrentMemoryContext = q.CurrentMemoryContext
    /\ p.error = q.error /\ p.crashed = q.crashed

\* C21: rollback_on_drop and commit_on_drop begin and release nothing and
\* leave the resource owner and memory context alone, and each undoes the
\* other: converting the converted handle again gives a handle with the
\* captured memory context, resource owner, release flag, parent and default
\* action of the original, again without touching the engine.
C21_ConversionInvolution ==
    [][\A x \in Xids :
          (x \in held /\ ConvertOf(x)) =>
              /\ EngineUntouched(pg', pg)
              /\ Releases(last') = {}
              /\ handles'[x].COMMIT = ~handles[x].COMMIT
              /\ EngineUntouched(into(WorldAfter, x).pg, pg)
              /\ into(WorldAfter, x).ev = <<>>
              /\ into(WorldAfter, x).rel = rel
              /\ into(WorldAfter, x).handles = handles]_vars

\* a handle made on another handle has been converted to rollback-default:
\* it is armed and holds its parent, and nothing has been executed
C21_Witness ==
    /\ Running
    /\ last = <<>>
    /\ \E x \in held :
          /\ ~handles[x].COMMIT /\ handles[x].should_release
          /\ handles[x].parent \in Xids
          /\ CurXid(pg) = x /\ rel[x] = 0

\* a conversion has been made
Converted == converted # NoPgError

\* the text field f of the converted record is absent exactly when the
\* engine's field is a null pointer, and is the engine's text otherwise
TextPreserved(f) ==
    /\ converted[f].some <=> pg.errdata[f] # 0
    /\ converted[f].some => converted[f].s = pg.errdata[f]

\* C22: PostgresError::from gives a record for every error record of the
\* engine: the severity of a known level is that level, an unknown severity
\* becomes ERROR, and every text field is absent exactly when the engine's
\* pointer is null.
C22_ConversionPreserves ==
    Converted =>
        /\ pg.errdata.elevel \in KnownElevels =>
              converted.elevel = pg.errdata.elevel
        /\ pg.errdata.elevel \notin KnownElevels => converted.elevel = "ERROR"
        /\ \A f \in {"message", "detail", "hint"} : TextPreserved(f)
====
